---- MODULE Spec2Model ----
(***************************************************************************)
(* Model of the frame pipeline of rcam/server/operators.py: the chained    *)
(* generators control -> capture -> focus -> whitebalance -> exposure ->   *)
(* fit_cropped -> fit_scaled -> jpeg_encoder -> publisher, driven by one    *)
(* thread that pulls the last generator.  The camera and the client of the *)
(* control socket are the environment.                                     *)
(***************************************************************************)
EXTENDS Integers, Sequences, FiniteSets, TLC

VARIABLES
    pc,          \* the generator step the single thread executes next
    count,       \* control: next value of itertools.count()
    item,        \* the frame record travelling down the chain (NoItem between frames)
    chan,        \* svr_socket, inbound: control messages not yet received
    nsent,       \* number of control messages the client has sent so far
    jobs,        \* camera: capture requests submitted and not yet waited for
    camera,      \* camera: arrays, camera_config, probe metadata, controls set so far
    can_focus,   \* focus: can_focus
    af_enable,   \* focus: af_enable
    awb_enable,  \* whitebalance: awb_enable
    ae_enable,   \* exposure: ae_enable
    crop,        \* fit_cropped: enabled, set_crop_w, set_crop_h
    scale,       \* fit_scaled: enabled, set_scale_w, set_scale_h
    latch,       \* publisher: exposure_time, analogue_gain, lens_position, red_gain, blue_gain
    pub_md,      \* publisher: the local copy `metadata` of the frame in hand
    result,      \* capture: the local (images, metadata) camera.wait returned
    pub_out,     \* pub_sock: multipart messages sent
    svr_out,     \* svr_socket, outbound: state updates sent
    completions, \* history: number of capture requests the device has completed
    landed,      \* history: for each control message, where it arrived and which batches held it
    rewrote,     \* history: the stages that replaced the active image of the frame in hand
    last         \* history: the tracked quantities of the last two frames published, latest first

vars == <<pc, count, item, chan, nsent, jobs, camera, can_focus, af_enable,
          awb_enable, ae_enable, crop, scale, latch, pub_md, result, pub_out,
          svr_out, completions, landed, rewrote, last>>

-----------------------------------------------------------------------------
(* Bounds of the model.                                                     *)

MaxFrames == 3
MaxMsgs == 2
MaxFramesPub == 3
MaxMsgsPub == 1
MaxFramesGeom == 1
MaxDim == 3

-----------------------------------------------------------------------------
(* Python values.                                                           *)

\* A Python object that is a bool or an int: focus keeps either in af_enable.
PyBool(b) == [t |-> "bool", v |-> IF b THEN 1 ELSE 0]
PyInt(n) == [t |-> "int", v |-> n]
Truthy(x) == x.v # 0
\* Python's `a or b`
PyOr(a, b) == IF Truthy(a) THEN a ELSE b

EmptyDict == [k \in {} |-> 0]
Has(d, k) == k \in DOMAIN d
\* dict.get(k, dflt)
Get(d, k, dflt) == IF k \in DOMAIN d THEN d[k] ELSE dflt
\* dict.update(other)
Update(d, other) == other @@ d
\* { k: d[k] for k in keys & d.keys() }
Restrict(d, keys) == [k \in keys \cap DOMAIN d |-> d[k]]
\* del d[k] for every k in ks
Without(d, ks) == [k \in DOMAIN d \ ks |-> d[k]]

\* str.endswith
EndsWith(s, suffix) ==
    /\ Len(s) >= Len(suffix)
    /\ SubSeq(s, Len(s) - Len(suffix) + 1, Len(s)) = suffix

Digit == <<"0", "1", "2", "3", "4", "5", "6", "7", "8", "9">>
\* f"{idx}" for idx >= 0
RECURSIVE Decimal(_)
Decimal(n) == IF n < 10 THEN Digit[n + 1]
              ELSE Decimal(n \div 10) \o Digit[(n % 10) + 1]

Min(a, b) == IF a <= b THEN a ELSE b

\* sys.maxsize, the default of the crop and scale targets.  It only takes part
\* in min() against an image dimension; the model uses the largest value of a
\* 32-bit integer, which is likewise beyond every image dimension.
maxsize == 2147483647

NoItem == [idx |-> -1]
NoResult == [metadata |-> EmptyDict]
Unset == [t |-> "unset", v |-> 0]

-----------------------------------------------------------------------------
(* The chain of generators.  The module that assembles the chain is not     *)
(* part of operators.py; the order is the one the design document gives.    *)

Chain == <<"control", "capture", "focus", "whitebalance", "exposure",
           "fit_cropped", "fit_scaled", "jpeg_encoder", "publisher">>

\* The first step of a stage's loop body.
Entry(stage) == CASE stage = "capture" -> "capture_wait"
                  [] stage = "publisher" -> "publish_metadata"
                  [] OTHER -> stage

Position(stage) == CHOOSE i \in 1..Len(Chain) : Chain[i] = stage

\* Where the thread goes when `stage` yields: into the body of the stage
\* downstream, or, when the last stage yields, back up the chain to the
\* first, whose loop creates the next frame.
After(stage) == IF Position(stage) = Len(Chain) THEN Entry(Chain[1])
                ELSE Entry(Chain[Position(stage) + 1])

\* The first pull runs each generator up to its loop, from the last stage
\* up to the first; focus and capture are the two whose preamble calls the
\* camera.
Preambles == <<"focus_start", "capture_start">>
FirstStep == Preambles[1]
AfterPreamble(p) == IF p = Preambles[Len(Preambles)] THEN Entry(Chain[1])
                    ELSE Preambles[(CHOOSE i \in 1..Len(Preambles) : Preambles[i] = p) + 1]

-----------------------------------------------------------------------------
(* Construction.                                                            *)

\* The image the camera delivers for a buffer of the given size: an array of
\* shape (h, w, _).  x0, y0 locate it in the captured frame and fx_n/fx_d is
\* the factor it has been resized by.
Image(size) == [w |-> size[1], h |-> size[2], x0 |-> 0, y0 |-> 0,
                fx_n |-> 1, fx_d |-> 1]

\* camera.camera_config[a]['size']: the main stream has the size asked for,
\* the raw stream that of the sensor mode, taken as twice the main stream's.
ConfiguredSize(a, size) == IF a = "raw" THEN <<2 * size[1], 2 * size[2]>>
                           ELSE size

\* camera.camera_config[a]
StreamConfig(size) == [size |-> size, format |-> "RGB888",
                       stride |-> 3 * size[1],
                       framesize |-> 3 * size[1] * size[2]]

InitLatch == [exposure_time |-> 0, analogue_gain |-> 0, lens_position |-> 0,
              red_gain |-> 0, blue_gain |-> 0]

\* The state before the first frame is pulled: the camera configured for
\* `arrays`, each generator constructed with its arguments, the locals that
\* the generators set before their loops at their initial values.
InitWith(arrays, sizes, probes, enables, targets) ==
    /\ pc = FirstStep
    /\ count = 0
    /\ item = NoItem
    /\ chan = <<>>
    /\ nsent = 0
    /\ jobs = <<>>
    /\ \E size \in sizes, probe \in probes :
          camera = [arrays |-> arrays,
                    config |-> [a \in {arrays[i] : i \in 1..Len(arrays)} |->
                                   StreamConfig(ConfiguredSize(a, size))],
                    model |-> "imx708",
                    probe |-> probe,
                    controls |-> EmptyDict]
    /\ can_focus = Unset
    /\ af_enable = Unset
    /\ awb_enable = TRUE
    /\ ae_enable = TRUE
    /\ \E en \in enables, t \in targets :
          /\ crop = [enabled |-> en[1], w |-> t[1], h |-> t[2]]
          /\ scale = [enabled |-> en[2], w |-> t[1], h |-> t[2]]
    /\ latch = InitLatch
    /\ pub_md = EmptyDict
    /\ result = NoResult
    /\ pub_out = <<>>
    /\ svr_out = <<>>
    /\ completions = 0
    /\ landed = <<>>
    /\ rewrote = {}
    /\ last = <<>>

-----------------------------------------------------------------------------
(* The environment: the client of the control socket and the camera.        *)

\* A client sends the mapping `ctrls` on the control channel.
ClientSend(ctrls) ==
    /\ chan' = Append(chan, [id |-> nsent + 1, ctrls |-> ctrls])
    /\ nsent' = nsent + 1
    /\ landed' = Append(landed, [ctrls |-> ctrls, completions |-> completions,
                                 drains |-> count, batches |-> <<>>])
    /\ UNCHANGED <<pc, count, item, jobs, camera, can_focus, af_enable,
                   awb_enable, ae_enable, crop, scale, latch, pub_md, result,
                   pub_out, svr_out, completions, rewrote, last>>

\* The camera completes the oldest request still pending, with metadata `md`.
DeviceComplete(md) ==
    /\ \E i \in 1..Len(jobs) :
          /\ jobs[i].state = "pending"
          /\ \A j \in 1..(i - 1) : jobs[j].state = "done"
          /\ jobs' = [jobs EXCEPT ![i] = [state |-> "done", metadata |-> md]]
    /\ UNCHANGED <<pc, count, item, chan, nsent, camera, can_focus, af_enable,
                   awb_enable, ae_enable, crop, scale, latch, pub_md, result,
                   pub_out, svr_out, completions, landed, rewrote, last>>

PendingJob == [state |-> "pending", metadata |-> EmptyDict]

-----------------------------------------------------------------------------
(* control                                                                  *)

\* The poll/recv loop: every message on the channel, merged in arrival order.
RECURSIVE DrainFirstWins(_, _)
\* Mutant of Drain: a key keeps the value of the first message that carries it.
DrainFirstWins(q, acc) == IF q = <<>> THEN acc
                          ELSE DrainFirstWins(Tail(q), Update(Head(q).ctrls, acc))

RECURSIVE Drain(_, _)
Drain(q, acc) == IF q = <<>> THEN acc
                 ELSE Drain(Tail(q), Update(acc, Head(q).ctrls))

\* Mutant of Control: the counter advances by two.
ControlSkips ==
    /\ pc = "control"
    /\ item' = [idx |-> count, controls |-> Drain(chan, EmptyDict)]
    /\ count' = count + 2
    /\ chan' = <<>>
    /\ landed' = [i \in 1..Len(landed) |->
                    IF \E k \in 1..Len(chan) : chan[k].id = i
                    THEN [landed[i] EXCEPT !.batches = Append(@, count)]
                    ELSE landed[i]]
    /\ rewrote' = {}
    /\ pc' = After("control")
    /\ UNCHANGED <<nsent, jobs, camera, can_focus, af_enable, awb_enable,
                   ae_enable, crop, scale, latch, pub_md, result, pub_out,
                   svr_out, completions, last>>

\* Mutant of Control: the exposure keys are passed to the camera as soon as
\* they are drained.
ControlApplies ==
    /\ pc = "control"
    /\ item' = [idx |-> count, controls |-> Drain(chan, EmptyDict)]
    /\ count' = count + 1
    /\ chan' = <<>>
    /\ camera' = [camera EXCEPT !.controls =
                     Update(@, Restrict(Drain(chan, EmptyDict),
                                        {"AeEnable", "AnalogueGain", "ExposureTime"}))]
    /\ landed' = [i \in 1..Len(landed) |->
                    IF \E k \in 1..Len(chan) : chan[k].id = i
                    THEN [landed[i] EXCEPT !.batches = Append(@, count)]
                    ELSE landed[i]]
    /\ rewrote' = {}
    /\ pc' = After("control")
    /\ UNCHANGED <<nsent, jobs, can_focus, af_enable, awb_enable,
                   ae_enable, crop, scale, latch, pub_md, result, pub_out,
                   svr_out, completions, last>>

Control ==
    /\ pc = "control"
    /\ item' = [idx |-> count, controls |-> Drain(chan, EmptyDict)]
    /\ count' = count + 1
    /\ chan' = <<>>
    /\ landed' = [i \in 1..Len(landed) |->
                    IF \E k \in 1..Len(chan) : chan[k].id = i
                    THEN [landed[i] EXCEPT !.batches = Append(@, count)]
                    ELSE landed[i]]
    /\ rewrote' = {}
    /\ pc' = After("control")
    /\ UNCHANGED <<nsent, jobs, camera, can_focus, af_enable, awb_enable,
                   ae_enable, crop, scale, latch, pub_md, result, pub_out,
                   svr_out, completions, last>>

-----------------------------------------------------------------------------
(* capture                                                                  *)

\* job = camera.capture_arrays(arrays, wait=False), before the loop
CaptureStart ==
    /\ pc = "capture_start"
    /\ jobs' = Append(jobs, PendingJob)
    /\ pc' = AfterPreamble("capture_start")
    /\ UNCHANGED <<count, item, chan, nsent, camera, can_focus, af_enable,
                   awb_enable, ae_enable, crop, scale, latch, pub_md, result,
                   pub_out, svr_out, completions, landed, rewrote, last>>

\* Mutant of CaptureWait: the result is read and the request left outstanding.
CaptureWaitPeek ==
    /\ pc = "capture_wait"
    /\ jobs # <<>>
    /\ jobs[1].state = "done"
    /\ result' = [metadata |-> jobs[1].metadata]
    /\ completions' = completions + 1
    /\ pc' = "capture_submit"
    /\ UNCHANGED <<count, item, chan, nsent, jobs, camera, can_focus, af_enable,
                   awb_enable, ae_enable, crop, scale, latch, pub_md, pub_out,
                   svr_out, landed, rewrote, last>>

\* images, metadata = camera.wait(job): blocks until the request is complete
CaptureWait ==
    /\ pc = "capture_wait"
    /\ jobs # <<>>
    /\ jobs[1].state = "done"
    /\ result' = [metadata |-> jobs[1].metadata]
    /\ jobs' = Tail(jobs)
    /\ completions' = completions + 1
    /\ pc' = "capture_submit"
    /\ UNCHANGED <<count, item, chan, nsent, camera, can_focus, af_enable,
                   awb_enable, ae_enable, crop, scale, latch, pub_md, pub_out,
                   svr_out, landed, rewrote, last>>

\* The buffer the stages downstream of capture work on.
ImageKey(it) == IF Has(it, "raw") THEN "raw" ELSE "main"

\* The record with metadata, CameraModel and ImageSize set (capture, before
\* the buffers are attached).
WithMetadata(it, md) ==
    LET it1 == Update(it, [metadata |-> md])
        md1 == Update(md, [CameraModel |-> camera.model])
        md2 == Update(md1, [ImageSize |-> camera.config[ImageKey(it1)].size])
    IN Update(it1, [metadata |-> md2])

\* for idx, array in enumerate(arrays): item[array] = {...}
WithArrays(it) ==
    Update(it, [a \in DOMAIN camera.config |->
                  [image |-> Image(camera.config[a].size),
                   format |-> camera.config[a].format,
                   framesize |-> camera.config[a].framesize,
                   size |-> camera.config[a].size,
                   stride |-> camera.config[a].stride]])

\* Mutant of CaptureSubmit: the record is built and yielded and no request is
\* submitted.
CaptureSubmitNothing ==
    /\ pc = "capture_submit"
    /\ item' = WithArrays(WithMetadata(item, result.metadata))
    /\ result' = NoResult
    /\ pc' = After("capture")
    /\ UNCHANGED <<count, chan, nsent, jobs, camera, can_focus, af_enable,
                   awb_enable, ae_enable, crop, scale, latch, pub_md, pub_out,
                   svr_out, completions, landed, rewrote, last>>

\* job = camera.capture_arrays(arrays, wait=False), then the record is built
\* and yielded
CaptureSubmit ==
    /\ pc = "capture_submit"
    /\ jobs' = Append(jobs, PendingJob)
    /\ item' = WithArrays(WithMetadata(item, result.metadata))
    /\ result' = NoResult
    /\ pc' = After("capture")
    /\ UNCHANGED <<count, chan, nsent, camera, can_focus, af_enable,
                   awb_enable, ae_enable, crop, scale, latch, pub_md, pub_out,
                   svr_out, completions, landed, rewrote, last>>

-----------------------------------------------------------------------------
(* focus, whitebalance, exposure                                            *)

\* camera.set_controls(ctrls)
SetControls(cam, ctrls) == [cam EXCEPT !.controls = Update(@, ctrls)]

\* item['metadata'][key] = value
SetMetadata(it, key, value) ==
    [it EXCEPT !.metadata = Update(@, key :> value)]

\* The preamble of focus: probe the camera, start in autofocus mode.
FocusStart ==
    /\ pc = "focus_start"
    /\ LET mdata == camera.probe
           cf == PyOr(Get(mdata, "AfState", PyBool(FALSE)),
                      Get(mdata, "AfMode", PyBool(FALSE)))
       IN /\ can_focus' = cf
          /\ camera' = IF Truthy(cf)
                       THEN SetControls(camera, [AfMode |-> "Auto", AfTrigger |-> "Start"])
                       ELSE camera
          /\ af_enable' = cf
    /\ pc' = AfterPreamble("focus_start")
    /\ UNCHANGED <<count, item, chan, nsent, jobs, awb_enable, ae_enable,
                   crop, scale, latch, pub_md, result, pub_out, svr_out,
                   completions, landed, rewrote, last>>

\* af_enable and local_ctrls after the AfEnable branch
FocusOnEnable(ctrls, af) ==
    IF Has(ctrls, "AfEnable")
    THEN IF ctrls["AfEnable"]
         THEN [af |-> PyBool(TRUE), local |-> [AfMode |-> "Auto", AfTrigger |-> "Start"]]
         ELSE [af |-> PyBool(FALSE), local |-> [AfMode |-> "Manual"]]
    ELSE [af |-> af, local |-> EmptyDict]

\* ... after the AfTrigger branch
FocusOnTrigger(ctrls, st) ==
    IF Get(ctrls, "AfTrigger", FALSE)
    THEN [st EXCEPT !.local = Update(@, [AfTrigger |-> "Start"])]
    ELSE st

\* ... after the LensPosition branch
FocusOnLensPosition(ctrls, st) ==
    IF Has(ctrls, "LensPosition")
    THEN [af |-> PyBool(FALSE),
          local |-> Update(st.local, [AfMode |-> "Manual",
                                      LensPosition |-> ctrls["LensPosition"]])]
    ELSE st

Focus ==
    /\ pc = "focus"
    /\ LET ctrls == item.controls
           st == FocusOnLensPosition(ctrls,
                    FocusOnTrigger(ctrls, FocusOnEnable(ctrls, af_enable)))
       IN /\ af_enable' = st.af
          /\ camera' = IF Truthy(can_focus) /\ DOMAIN st.local # {}
                       THEN SetControls(camera, st.local)
                       ELSE camera
          /\ item' = IF Truthy(can_focus)
                     THEN SetMetadata(item, "AfEnable", st.af)
                     ELSE item
    /\ pc' = After("focus")
    /\ UNCHANGED <<count, chan, nsent, jobs, can_focus, awb_enable, ae_enable,
                   crop, scale, latch, pub_md, result, pub_out, svr_out,
                   completions, landed, rewrote, last>>

WbKeys == {"AwbEnable", "ColourGains"}

\* Mutant of Whitebalance: a batch without AwbEnable reports the default.
WhitebalanceDefaults ==
    /\ pc = "whitebalance"
    /\ LET local_ctrls == Restrict(item.controls, {"AwbEnable", "ColourGains"})
           enable == Get(local_ctrls, "AwbEnable", TRUE)
       IN /\ camera' = IF DOMAIN local_ctrls # {}
                       THEN SetControls(camera, local_ctrls)
                       ELSE camera
          /\ awb_enable' = enable
          /\ item' = SetMetadata(item, "AwbEnable", enable)
    /\ pc' = After("whitebalance")
    /\ UNCHANGED <<count, chan, nsent, jobs, can_focus, af_enable, ae_enable,
                   crop, scale, latch, pub_md, result, pub_out, svr_out,
                   completions, landed, rewrote, last>>

Whitebalance ==
    /\ pc = "whitebalance"
    /\ LET local_ctrls == Restrict(item.controls, WbKeys)
           enable == Get(local_ctrls, "AwbEnable", awb_enable)
       IN /\ camera' = IF DOMAIN local_ctrls # {}
                       THEN SetControls(camera, local_ctrls)
                       ELSE camera
          /\ awb_enable' = enable
          /\ item' = SetMetadata(item, "AwbEnable", enable)
    /\ pc' = After("whitebalance")
    /\ UNCHANGED <<count, chan, nsent, jobs, can_focus, af_enable, ae_enable,
                   crop, scale, latch, pub_md, result, pub_out, svr_out,
                   completions, landed, rewrote, last>>

ExposureKeys == {"AeEnable", "AnalogueGain", "ExposureTime"}

Exposure ==
    /\ pc = "exposure"
    /\ LET local_ctrls == Restrict(item.controls, ExposureKeys)
           enable == Get(local_ctrls, "AeEnable", ae_enable)
       IN /\ camera' = IF DOMAIN local_ctrls # {}
                       THEN SetControls(camera, local_ctrls)
                       ELSE camera
          /\ ae_enable' = enable
          /\ item' = SetMetadata(item, "AeEnable", enable)
    /\ pc' = After("exposure")
    /\ UNCHANGED <<count, chan, nsent, jobs, can_focus, af_enable, awb_enable,
                   crop, scale, latch, pub_md, result, pub_out, svr_out,
                   completions, landed, rewrote, last>>

-----------------------------------------------------------------------------
(* fit_cropped, fit_scaled                                                  *)

\* image[y0:y1, x0:x1, :] for 0 <= x0 <= x1 and 0 <= y0 <= y1
Slice(image, y0, y1, x0, x1) ==
    [image EXCEPT !.w = Min(x1, image.w) - Min(x0, image.w),
                  !.h = Min(y1, image.h) - Min(y0, image.h),
                  !.x0 = @ + x0,
                  !.y0 = @ + y0]

\* Mutant of FitLatch: Width and Height are taken only while the stage is
\* enabled.
FitLatchWhenEnabled(st, controls, mode) ==
    LET en == IF Has(controls, "FitMode") THEN controls["FitMode"] = mode
              ELSE st.enabled
    IN [enabled |-> en,
        w |-> IF en THEN Get(controls, "Width", st.w) ELSE st.w,
        h |-> IF en THEN Get(controls, "Height", st.h) ELSE st.h]

\* The latched state of a geometry stage after it has read the controls of a
\* frame; `mode` is the fit mode that enables the stage.
FitLatch(st, controls, mode) ==
    [enabled |-> IF Has(controls, "FitMode") THEN controls["FitMode"] = mode
                 ELSE st.enabled,
     w |-> Get(controls, "Width", st.w),
     h |-> Get(controls, "Height", st.h)]

\* Mutant of Cropped: the far edges are rounded up.
CroppedRoundedUp(image, set_crop_w, set_crop_h) ==
    LET image_w == image.w
        image_h == image.h
        crop_w == Min(image_w, set_crop_w)
        crop_h == Min(image_h, set_crop_h)
        x0 == (image_w - crop_w) \div 2
        x1 == (image_w + crop_w + 1) \div 2
        y0 == (image_h - crop_h) \div 2
        y1 == (image_h + crop_h + 1) \div 2
    IN IF crop_w < image_w \/ crop_h < image_h
       THEN Slice(image, y0, y1, x0, x1)
       ELSE image

\* The image fit_cropped leaves in the record, for the latched size (w, h).
Cropped(image, set_crop_w, set_crop_h) ==
    LET image_w == image.w
        image_h == image.h
        crop_w == Min(image_w, set_crop_w)
        crop_h == Min(image_h, set_crop_h)
        x0 == (image_w - crop_w) \div 2
        x1 == (image_w + crop_w) \div 2
        y0 == (image_h - crop_h) \div 2
        y1 == (image_h + crop_h) \div 2
    IN IF crop_w < image_w \/ crop_h < image_h
       THEN Slice(image, y0, y1, x0, x1)
       ELSE image

\* Whether fit_cropped assigns item[image_key]['image'].
CropApplies(image, set_crop_w, set_crop_h) ==
    Min(image.w, set_crop_w) < image.w \/ Min(image.h, set_crop_h) < image.h

FitCropped ==
    /\ pc = "fit_cropped"
    /\ LET st == FitLatch(crop, item.controls, "cropped")
           key == ImageKey(item)
           image == item[key].image
       IN /\ crop' = st
          /\ IF st.enabled /\ CropApplies(image, st.w, st.h)
             THEN /\ item' = [item EXCEPT ![key].image = Cropped(image, st.w, st.h)]
                  /\ rewrote' = rewrote \cup {"fit_cropped"}
             ELSE UNCHANGED <<item, rewrote>>
    /\ pc' = After("fit_cropped")
    /\ UNCHANGED <<count, chan, nsent, jobs, camera, can_focus, af_enable,
                   awb_enable, ae_enable, scale, latch, pub_md, result,
                   pub_out, svr_out, completions, landed, last>>

\* The integers a/d rounds to (a >= 0, d > 0).  cv2.resize computes the size
\* in floating point, so an exact half may land on either side.
Rounded(a, d) ==
    LET q == a \div d
        r == a % d
    IN IF 2 * r < d THEN {q} ELSE IF 2 * r > d THEN {q + 1} ELSE {q, q + 1}

\* Mutant of ScaleFactor: the larger of the two ratios.
ScaleFactorMax(image, set_scale_w, set_scale_h) ==
    LET scale_w == Min(image.w, set_scale_w)
        scale_h == Min(image.h, set_scale_h)
    IN IF scale_w * image.h >= scale_h * image.w
       THEN [n |-> scale_w, d |-> image.w]
       ELSE [n |-> scale_h, d |-> image.h]

\* scale = min(scale_w/image_w, scale_h/image_h), as the fraction n/d
ScaleFactor(image, set_scale_w, set_scale_h) ==
    LET scale_w == Min(image.w, set_scale_w)
        scale_h == Min(image.h, set_scale_h)
    IN IF scale_w * image.h <= scale_h * image.w
       THEN [n |-> scale_w, d |-> image.w]
       ELSE [n |-> scale_h, d |-> image.h]

\* Mutant of ScaleApplies: an image of exactly the target size is resized too.
ScaleAppliesAtTarget(image, set_scale_w, set_scale_h) ==
    set_scale_w <= image.w \/ set_scale_h <= image.h

\* Whether fit_scaled assigns item[image_key]['image'].
ScaleApplies(image, set_scale_w, set_scale_h) ==
    Min(image.w, set_scale_w) < image.w \/ Min(image.h, set_scale_h) < image.h

\* The images cv2.resize(image, None, fx=n/d, fy=n/d) can return: the size is
\* (round(fx * cols), round(fy * rows)).
Resized(image, f) ==
    { [image EXCEPT !.w = ow, !.h = oh,
                    !.fx_n = @ * f.n, !.fx_d = @ * f.d] :
        ow \in Rounded(image.w * f.n, f.d), oh \in Rounded(image.h * f.n, f.d) }

FitScaled ==
    /\ pc = "fit_scaled"
    /\ LET st == FitLatch(scale, item.controls, "scaled")
           key == ImageKey(item)
           image == item[key].image
       IN /\ scale' = st
          /\ IF st.enabled /\ ScaleApplies(image, st.w, st.h)
             THEN /\ \E out \in Resized(image, ScaleFactor(image, st.w, st.h)) :
                        item' = [item EXCEPT ![key].image = out]
                  /\ rewrote' = rewrote \cup {"fit_scaled"}
             ELSE UNCHANGED <<item, rewrote>>
    /\ pc' = After("fit_scaled")
    /\ UNCHANGED <<count, chan, nsent, jobs, camera, can_focus, af_enable,
                   awb_enable, ae_enable, crop, latch, pub_md, result,
                   pub_out, svr_out, completions, landed, last>>

-----------------------------------------------------------------------------
(* jpeg_encoder                                                             *)

\* The encoder is a function of the pixel buffer alone.
Jpeg(image) == [jpeg_of |-> image]

JpegEncoder ==
    /\ pc = "jpeg_encoder"
    /\ item' = Update(item, [jpeg |-> Jpeg(item[ImageKey(item)].image)])
    /\ pc' = After("jpeg_encoder")
    /\ UNCHANGED <<count, chan, nsent, jobs, camera, can_focus, af_enable,
                   awb_enable, ae_enable, crop, scale, latch, pub_md, result,
                   pub_out, svr_out, completions, landed, rewrote, last>>

-----------------------------------------------------------------------------
(* publisher                                                                *)

\* PubSubCommands.METADATA and PubSubCommands.JPEGIMG
METADATA == "METADATA"
JPEGIMG == "JPEGIMG"

\* json.dumps keeps every key of the mapping with its value
JsonDumps(md) == [json |-> md]

\* Mutant of Stripped: the entries are recognised by their prefix.
StrippedByPrefix(md) ==
    Without(md, {k \in DOMAIN md : /\ Len(k) >= Len("StatsOutput")
                                   /\ SubSeq(k, 1, Len("StatsOutput")) = "StatsOutput"})

\* The copy of the metadata with the statistics entries removed.
Stripped(md) == Without(md, {k \in DOMAIN md : EndsWith(k, "StatsOutput")})

\* Mutant of PublishMetadata: the publisher asks for the next frame as soon
\* as the metadata message is out.
PublishMetadataYields ==
    /\ pc = "publish_metadata"
    /\ pub_md' = Stripped(item.metadata)
    /\ pub_out' = Append(pub_out, [cmd |-> METADATA, idx |-> Decimal(item.idx),
                                   payload |-> JsonDumps(Stripped(item.metadata))])
    /\ pc' = After("publisher")
    /\ UNCHANGED <<count, item, chan, nsent, jobs, camera, can_focus,
                   af_enable, awb_enable, ae_enable, crop, scale, latch,
                   result, svr_out, completions, landed, rewrote, last>>

\* The copy is taken and stripped, and the metadata message sent.
PublishMetadata ==
    /\ pc = "publish_metadata"
    /\ pub_md' = Stripped(item.metadata)
    /\ pub_out' = Append(pub_out, [cmd |-> METADATA, idx |-> Decimal(item.idx),
                                   payload |-> JsonDumps(Stripped(item.metadata))])
    /\ pc' = "publish_image"
    /\ UNCHANGED <<count, item, chan, nsent, jobs, camera, can_focus,
                   af_enable, awb_enable, ae_enable, crop, scale, latch,
                   result, svr_out, completions, landed, rewrote, last>>

\* Mutant of PublishImage: the image message carries the value of the frame
\* counter instead of the ordinal of the frame.
PublishImageCounter ==
    /\ pc = "publish_image"
    /\ pub_out' = Append(pub_out, [cmd |-> JPEGIMG, idx |-> Decimal(count),
                                   payload |-> item.jpeg])
    /\ pc' = "publish_updates"
    /\ UNCHANGED <<count, item, chan, nsent, jobs, camera, can_focus,
                   af_enable, awb_enable, ae_enable, crop, scale, latch,
                   pub_md, result, svr_out, completions, landed, rewrote, last>>

PublishImage ==
    /\ pc = "publish_image"
    /\ pub_out' = Append(pub_out, [cmd |-> JPEGIMG, idx |-> Decimal(item.idx),
                                   payload |-> item.jpeg])
    /\ pc' = "publish_updates"
    /\ UNCHANGED <<count, item, chan, nsent, jobs, camera, can_focus,
                   af_enable, awb_enable, ae_enable, crop, scale, latch,
                   pub_md, result, svr_out, completions, landed, rewrote, last>>

\* round(x, 2), on gains held in thousandths
Round2(g) ==
    LET q == g \div 10
        r == g % 10
    IN IF r < 5 THEN 10 * q
       ELSE IF r > 5 THEN 10 * (q + 1)
       ELSE IF q % 2 = 0 THEN 10 * q ELSE 10 * (q + 1)

\* The publisher's locals while it compares one frame: the latched copies, the
\* updates collected so far, and whether a lookup has raised KeyError.
UpdExposure(metadata, st) ==
    IF ~(Has(metadata, "AnalogueGain") /\ Has(metadata, "ExposureTime"))
    THEN [st EXCEPT !.raised = TRUE]
    ELSE IF metadata["AnalogueGain"] # st.latch.analogue_gain
            \/ metadata["ExposureTime"] # st.latch.exposure_time
    THEN [st EXCEPT !.latch.analogue_gain = metadata["AnalogueGain"],
                    !.latch.exposure_time = metadata["ExposureTime"],
                    !.updates = Update(@, [AnalogueGain |-> metadata["AnalogueGain"],
                                           ExposureTime |-> metadata["ExposureTime"]])]
    ELSE st

\* Mutant of UpdLens: a lens position that is reported is always forwarded.
UpdLensAlways(metadata, st) ==
    IF st.raised THEN st
    ELSE IF Has(metadata, "LensPosition")
    THEN [st EXCEPT !.latch.lens_position = metadata["LensPosition"],
                    !.updates = Update(@, [LensPosition |-> metadata["LensPosition"]])]
    ELSE IF st.latch.lens_position # 0 THEN [st EXCEPT !.raised = TRUE]
    ELSE st

UpdLens(metadata, st) ==
    IF st.raised THEN st
    ELSE IF st.latch.lens_position # Get(metadata, "LensPosition", 0)
    THEN IF Has(metadata, "LensPosition")
         THEN [st EXCEPT !.latch.lens_position = metadata["LensPosition"],
                         !.updates = Update(@, [LensPosition |-> metadata["LensPosition"]])]
         ELSE [st EXCEPT !.raised = TRUE]
    ELSE st

\* Mutant of UpdGains: the gains are compared but the latched copies are not
\* refreshed.
UpdGainsNoLatch(metadata, st) ==
    IF st.raised THEN st
    ELSE LET gains == Get(metadata, "ColourGains", <<0, 0>>)
             cur_red_gain == Round2(gains[1])
             cur_blue_gain == Round2(gains[2])
             st1 == IF st.latch.red_gain # cur_red_gain
                    THEN [st EXCEPT !.updates = Update(@, [RedGain |-> cur_red_gain])]
                    ELSE st
         IN IF st1.latch.blue_gain # cur_blue_gain
            THEN [st1 EXCEPT !.updates = Update(@, [BlueGain |-> cur_blue_gain])]
            ELSE st1

UpdGains(metadata, st) ==
    IF st.raised THEN st
    ELSE LET gains == Get(metadata, "ColourGains", <<0, 0>>)
             cur_red_gain == Round2(gains[1])
             cur_blue_gain == Round2(gains[2])
             st1 == IF st.latch.red_gain # cur_red_gain
                    THEN [st EXCEPT !.latch.red_gain = cur_red_gain,
                                    !.updates = Update(@, [RedGain |-> cur_red_gain])]
                    ELSE st
         IN IF st1.latch.blue_gain # cur_blue_gain
            THEN [st1 EXCEPT !.latch.blue_gain = cur_blue_gain,
                             !.updates = Update(@, [BlueGain |-> cur_blue_gain])]
            ELSE st1

Compare(metadata, lt) ==
    UpdGains(metadata, UpdLens(metadata, UpdExposure(metadata,
        [latch |-> lt, updates |-> EmptyDict, raised |-> FALSE])))

\* The tracked quantities of a frame, as the publisher reads them.
Tracked(metadata) ==
    [AnalogueGain |-> metadata["AnalogueGain"],
     ExposureTime |-> metadata["ExposureTime"],
     LensPosition |-> Get(metadata, "LensPosition", 0),
     RedGain |-> Round2(Get(metadata, "ColourGains", <<0, 0>>)[1]),
     BlueGain |-> Round2(Get(metadata, "ColourGains", <<0, 0>>)[2])]

\* The updates are collected and sent, and the record is yielded to the
\* driver, which drops it; a KeyError ends the chain.
PublishUpdates ==
    /\ pc = "publish_updates"
    /\ LET st == Compare(pub_md, latch)
       IN /\ latch' = st.latch
          /\ IF st.raised
             THEN /\ pc' = "raised"
                  /\ UNCHANGED <<svr_out, item, last>>
             ELSE /\ svr_out' = IF DOMAIN st.updates # {}
                                THEN Append(svr_out, st.updates)
                                ELSE svr_out
                  /\ item' = NoItem
                  /\ last' = <<Tracked(pub_md)>> \o SubSeq(last, 1, Min(1, Len(last)))
                  /\ pc' = After("publisher")
    /\ UNCHANGED <<count, chan, nsent, jobs, camera, can_focus, af_enable,
                   awb_enable, ae_enable, crop, scale, pub_md, result, pub_out,
                   completions, landed, rewrote>>

-----------------------------------------------------------------------------
(* Specifications.                                                          *)

\* Every step of the chain but the one that creates a frame.
Stages ==
    \/ FocusStart
    \/ CaptureStart
    \/ CaptureWait
    \/ CaptureSubmit
    \/ Focus
    \/ Whitebalance
    \/ Exposure
    \/ FitCropped
    \/ FitScaled
    \/ JpegEncoder
    \/ PublishMetadata
    \/ PublishImage
    \/ PublishUpdates

NoAf == [ExposureTime |-> 10]
WithAf == [AfState |-> PyInt(2), AfMode |-> PyInt(1)]

Unbounded == <<maxsize, maxsize>>

(* The pipeline under control traffic: a client that sends any of Msgs at   *)
(* any time, a camera that reports little.                                  *)

Msgs ==
    { [AfEnable |-> FALSE],
      [AfEnable |-> TRUE],
      [LensPosition |-> 2],
      [AfTrigger |-> TRUE, ColourGains |-> <<1500, 1500>>, AnalogueGain |-> 2],
      [AwbEnable |-> FALSE],
      [AeEnable |-> FALSE, ExposureTime |-> 20] }

Metas ==
    { [AnalogueGain |-> 1, ExposureTime |-> 10, LensPosition |-> 2,
       ColourGains |-> <<1500, 1500>>] }

Init == InitWith(<<"main">>, {<<4, 3>>}, {NoAf, WithAf}, {<<TRUE, FALSE>>},
                 {Unbounded})

Next ==
    \/ count < MaxFrames /\ Control
    \/ Stages
    \/ nsent < MaxMsgs /\ \E m \in Msgs : ClientSend(m)
    \/ \E md \in Metas : DeviceComplete(md)

Spec == Init /\ [][Next]_vars

(* The publisher under varying metadata.                                    *)

MsgsPub == { [AfTrigger |-> TRUE] }

MetasPub ==
    { [AnalogueGain |-> 1, ExposureTime |-> 10],
      [AnalogueGain |-> 2, ExposureTime |-> 10, Bcm2835StatsOutput |-> 0],
      [AnalogueGain |-> 1, ExposureTime |-> 20, LensPosition |-> 0,
       ColourGains |-> <<1504, 1996>>, StatsOutputVersion |-> 1],
      [AnalogueGain |-> 1, ExposureTime |-> 10, LensPosition |-> 2,
       ColourGains |-> <<1496, 2004>>, PispStatsOutput |-> 0, StatsOutput |-> 0],
      [AnalogueGain |-> 1, ExposureTime |-> 10, LensPosition |-> 2,
       ColourGains |-> <<1504, 2004>>] }

InitPub == InitWith(<<"main">>, {<<4, 3>>}, {WithAf}, {<<TRUE, FALSE>>},
                    {Unbounded})

NextPub ==
    \/ count < MaxFramesPub /\ Control
    \/ Stages
    \/ nsent < MaxMsgsPub /\ \E m \in MsgsPub : ClientSend(m)
    \/ \E md \in MetasPub : DeviceComplete(md)

SpecPub == InitPub /\ [][NextPub]_vars

(* The geometry stages over image and target sizes: the target is one an    *)
(* earlier Width/Height control has latched in both stages.                 *)

Dims == 1..MaxDim
SizesGeom == (Dims \X Dims) \cup {<<1920, 1080>>}
TargetsGeom == ((Dims \cup {maxsize}) \X (Dims \cup {maxsize})) \cup {<<800, 600>>}

MsgsGeom == { [FitMode |-> "cropped", Height |-> 1],
              [FitMode |-> "scaled", Width |-> 2] }

MetasGeom == { [AnalogueGain |-> 1, ExposureTime |-> 10] }

InitGeom == InitWith(<<"main">>, SizesGeom, {NoAf}, BOOLEAN \X BOOLEAN,
                     TargetsGeom)

NextGeom ==
    \/ count < MaxFramesGeom /\ Control
    \/ Stages
    \/ nsent < MaxMsgsPub /\ \E m \in MsgsGeom : ClientSend(m)
    \/ \E md \in MetasGeom : DeviceComplete(md)

SpecGeom == InitGeom /\ [][NextGeom]_vars

(* The focus stage over what the probe can report: no autofocus entries, a  *)
(* lens that is scanning in auto mode, and an idle lens in manual mode      *)
(* (AfState Idle and AfMode Manual are both 0).                             *)

AfIdle == [AfState |-> PyInt(0), AfMode |-> PyInt(0)]

MsgsFocus == { [AfEnable |-> TRUE], [AfEnable |-> FALSE], [LensPosition |-> 2] }

InitFocus == InitWith(<<"main">>, {<<4, 3>>}, {NoAf, WithAf, AfIdle},
                      {<<TRUE, FALSE>>}, {Unbounded})

NextFocus ==
    \/ count < MaxFramesPub /\ Control
    \/ Stages
    \/ nsent < MaxMsgsPub /\ \E m \in MsgsFocus : ClientSend(m)
    \/ \E md \in MetasGeom : DeviceComplete(md)

SpecFocus == InitFocus /\ [][NextFocus]_vars

(* The pipeline over the buffers captured: the main stream alone, or the    *)
(* main and the raw stream.                                                 *)

InitRaw ==
    \/ InitWith(<<"main">>, {<<4, 3>>}, {NoAf}, {<<TRUE, FALSE>>}, {Unbounded})
    \/ InitWith(<<"main", "raw">>, {<<4, 3>>}, {NoAf}, {<<TRUE, FALSE>>},
                {Unbounded})

NextRaw ==
    \/ count < MaxFramesPub /\ Control
    \/ Stages
    \/ nsent < MaxMsgsPub /\ \E m \in MsgsGeom : ClientSend(m)
    \/ \E md \in MetasGeom : DeviceComplete(md)

SpecRaw == InitRaw /\ [][NextRaw]_vars

(* The geometry stages as constructed, with no target latched, under        *)
(* Width, Height and FitMode controls that arrive frame after frame.        *)

MsgsFit == { [Width |-> 2], [Height |-> 1], [Width |-> 3, Height |-> 2],
             [FitMode |-> "cropped"], [FitMode |-> "scaled"] }

InitFit == InitWith(<<"main">>, {<<4, 3>>}, {NoAf},
                    {<<FALSE, FALSE>>, <<TRUE, FALSE>>},
                    {Unbounded})

NextFit ==
    \/ count < MaxFrames /\ Control
    \/ Stages
    \/ nsent < MaxMsgs /\ \E m \in MsgsFit : ClientSend(m)
    \/ \E md \in MetasGeom : DeviceComplete(md)

SpecFit == InitFit /\ [][NextFit]_vars

-----------------------------------------------------------------------------
(* Properties.                                                              *)

MetadataMessages == SelectSeq(pub_out, LAMBDA m : m.cmd = METADATA)
ImageMessages == SelectSeq(pub_out, LAMBDA m : m.cmd = JPEGIMG)

\* C1: the ordinal of the frame in hand is the last one control assigned; the
\* frames published carry the ordinals 0, 1, 2, ... in that order, each once,
\* and no more frames are published than were created.
OrdinalsInOrder ==
    /\ item # NoItem => item.idx = count - 1
    /\ \A i \in 1..Len(MetadataMessages) : MetadataMessages[i].idx = Decimal(i - 1)
    /\ \A i \in 1..Len(ImageMessages) : ImageMessages[i].idx = Decimal(i - 1)
    /\ Len(ImageMessages) <= Len(MetadataMessages)
    /\ Len(MetadataMessages) <= count
    /\ Len(MetadataMessages) >= count - 1

\* Three frames have gone through the publisher.
OrdinalsInOrderWitness ==
    /\ count = 3
    /\ pc = "control"
    /\ Len(ImageMessages) = 3
    /\ ImageMessages[3].idx = "2"

\* C2: at most one capture request is submitted and not yet waited for.
AtMostOneOutstanding == Len(jobs) <= 1

\* The request for the third frame is outstanding while the second is processed.
AtMostOneOutstandingWitness ==
    /\ Len(jobs) = 1
    /\ completions = 2
    /\ pc = "publish_image"

InChan(i) == \E k \in 1..Len(chan) : chan[k].id = i

\* The messages drained into the batch of frame n.
BatchOf(n) == {i \in 1..Len(landed) : landed[i].batches = <<n>>}

\* The last message of the set that carries key k.
LastWith(B, k) ==
    CHOOSE i \in B : /\ k \in DOMAIN landed[i].ctrls
                     /\ \A j \in B : k \in DOMAIN landed[j].ctrls => j <= i

\* C3 as stated: a control message that arrives once c captures have
\* completed, so between the c-th and the next completion, is in the batch of
\* the very next frame to complete, which is frame c, and in no other.
ControlsSeenByNextCompletedFrame ==
    \A i \in 1..Len(landed) :
        landed[i].completions >= 1 =>
            \A k \in 1..Len(landed[i].batches) :
                landed[i].batches[k] = landed[i].completions

\* C3, amended: a control message is in the batch of exactly one frame, the
\* one the first drain after its arrival creates; the batch of a frame holds
\* the keys of the messages drained into it and no others (none when none was
\* pending), each with the value of the last message that carries it.
ControlsSeenByNextDrain ==
    /\ \A i \in 1..Len(landed) :
          /\ InChan(i) => landed[i].batches = <<>> /\ landed[i].drains = count
          /\ ~InChan(i) => landed[i].batches = <<landed[i].drains>>
    /\ item # NoItem =>
          LET B == BatchOf(item.idx)
              keys == UNION {DOMAIN landed[i].ctrls : i \in B}
          IN /\ DOMAIN item.controls = keys
             /\ \A k \in keys : item.controls[k] = landed[LastWith(B, k)].ctrls[k]

\* A message arrives after the drain of frame 1 and before the capture of
\* frame 1 completes, and is in the batch of frame 2 alone; another frame
\* holds two messages with one key and shows the later value.
ControlsSeenByNextDrainWitness ==
    /\ \E i \in 1..Len(landed) :
          /\ landed[i].completions = 1
          /\ landed[i].drains = 2
          /\ landed[i].batches = <<2>>
    /\ item # NoItem
    /\ BatchOf(item.idx) = {1, 2}
    /\ "AfEnable" \in DOMAIN landed[1].ctrls \cap DOMAIN landed[2].ctrls
    /\ landed[1].ctrls["AfEnable"] # landed[2].ctrls["AfEnable"]
    /\ item.controls["AfEnable"] = landed[2].ctrls["AfEnable"]

\* The step in which a stage handles the frame in hand and yields it.
StepOf(stage) == pc = stage /\ pc' = After(stage)

\* C4 as stated: a latched enable flag is unchanged by a frame whose batch
\* omits AfEnable, AwbEnable, AeEnable respectively.
LatchedFlagsFollowOwnKey ==
    [][/\ StepOf("focus") /\ ~Has(item.controls, "AfEnable")
            => af_enable' = af_enable
       /\ StepOf("whitebalance") /\ ~Has(item.controls, "AwbEnable")
            => awb_enable' = awb_enable
       /\ StepOf("exposure") /\ ~Has(item.controls, "AeEnable")
            => ae_enable' = ae_enable]_vars

\* C4, amended: AwbEnable and AeEnable are unchanged by a frame whose batch
\* omits the key of that name, and AfEnable by a frame whose batch omits both
\* AfEnable and LensPosition; the flag reported in the metadata is the
\* latched one.
LatchedFlagsFollowOwningKeys ==
    [][/\ StepOf("focus") /\ ~Has(item.controls, "AfEnable")
                          /\ ~Has(item.controls, "LensPosition")
            => /\ af_enable' = af_enable
               /\ Truthy(can_focus) => item'.metadata["AfEnable"] = af_enable
       /\ StepOf("whitebalance") /\ ~Has(item.controls, "AwbEnable")
            => /\ awb_enable' = awb_enable
               /\ item'.metadata["AwbEnable"] = awb_enable
       /\ StepOf("exposure") /\ ~Has(item.controls, "AeEnable")
            => /\ ae_enable' = ae_enable
               /\ item'.metadata["AeEnable"] = ae_enable]_vars

\* The second frame has passed white balance with a batch that holds keys of
\* all three stages but no enable key, after a frame that disabled AWB, and
\* still reports it disabled.
LatchedFlagsWitness ==
    /\ pc = After("exposure")
    /\ item.idx = 1
    /\ DOMAIN item.controls = {"AfTrigger", "ColourGains", "AnalogueGain"}
    /\ landed[1].ctrls = [AwbEnable |-> FALSE]
    /\ landed[1].batches = <<0>>
    /\ awb_enable = FALSE
    /\ item.metadata["AwbEnable"] = FALSE
    /\ Truthy(can_focus)
    /\ item.metadata["AfEnable"] = af_enable

\* The publisher's latched copy for a key of a state update.
Latched(k) == CASE k = "AnalogueGain" -> latch.analogue_gain
                [] k = "ExposureTime" -> latch.exposure_time
                [] k = "LensPosition" -> latch.lens_position
                [] k = "RedGain" -> latch.red_gain
                [] k = "BlueGain" -> latch.blue_gain

TrackedKeys == {"AnalogueGain", "ExposureTime", "LensPosition", "RedGain", "BlueGain"}

\* The step in which the publisher sends a state update.
SendsUpdate == /\ pc = "publish_updates"
               /\ Len(svr_out') = Len(svr_out) + 1

SentUpdate == svr_out'[Len(svr_out')]

\* C5 as stated: a state update holds only tracked keys whose value differs
\* from the publisher's latched copy for that key.
UpdatesHoldOnlyChangedKeys ==
    [][SendsUpdate =>
          \A k \in DOMAIN SentUpdate :
              k \in TrackedKeys /\ SentUpdate[k] # Latched(k)]_vars

\* C5, amended: a state update holds only tracked keys, each with its current
\* value; LensPosition, RedGain and BlueGain only when the value differs from
\* the latched copy, AnalogueGain and ExposureTime together, when at least
\* one of the two differs from its latched copy.
UpdatesHoldChangedKeysAndExposurePair ==
    [][SendsUpdate =>
          /\ \A k \in DOMAIN SentUpdate :
                /\ k \in TrackedKeys
                /\ SentUpdate[k] = Tracked(pub_md)[k]
                /\ k \in {"LensPosition", "RedGain", "BlueGain"}
                      => SentUpdate[k] # Latched(k)
                /\ k \in {"AnalogueGain", "ExposureTime"}
                      => /\ {"AnalogueGain", "ExposureTime"} \subseteq DOMAIN SentUpdate
                         /\ \/ SentUpdate["AnalogueGain"] # latch.analogue_gain
                            \/ SentUpdate["ExposureTime"] # latch.exposure_time
          /\ \A k \in TrackedKeys :
                Tracked(pub_md)[k] # Latched(k) => k \in DOMAIN SentUpdate]_vars

\* The second update sent holds a changed gain together with the exposure
\* time, which has not changed.
UpdatesWitness ==
    /\ Len(svr_out) = 2
    /\ pc = "control"
    /\ DOMAIN svr_out[2] = {"AnalogueGain", "ExposureTime"}
    /\ svr_out[2]["AnalogueGain"] # svr_out[1]["AnalogueGain"]
    /\ svr_out[2]["ExposureTime"] = svr_out[1]["ExposureTime"]

\* C6: the publisher sends at most one state update per frame, and only on a
\* frame with a tracked quantity that differs from its latched copy; on a
\* frame whose tracked quantities equal those of the frame before it sends
\* none.
UpdateOnlyOnChange ==
    [][pc = "publish_updates" /\ pc' # pc =>
          /\ svr_out' = svr_out \/ SendsUpdate
          /\ SendsUpdate => \E k \in TrackedKeys : Tracked(pub_md)[k] # Latched(k)
          /\ last # <<>> /\ last[1] = Tracked(pub_md) => svr_out' = svr_out]_vars

\* Three frames with the same tracked quantities, a lens position and gains
\* among them, have been published and one update was sent.
UpdateOnlyOnChangeWitness ==
    /\ pc = "control"
    /\ count = 3
    /\ Len(last) = 2
    /\ last[1] = last[2]
    /\ last[1]["LensPosition"] # 0
    /\ last[1]["RedGain"] # 0
    /\ Len(svr_out) = 1
    /\ svr_out[1]["LensPosition"] = last[1]["LensPosition"]

\* The step in which the publisher sends the metadata message.
SendsMetadata == pc = "publish_metadata" /\ pc' = "publish_image"

\* C7: the metadata message of a frame holds no key that ends in StatsOutput
\* and every other key of the frame's metadata with its value, and sending it
\* leaves the frame record as it was.
MetadataPayloadStripped ==
    [][SendsMetadata =>
          LET sent == pub_out'[Len(pub_out')]
              keys == DOMAIN sent.payload.json
          IN /\ Len(pub_out') = Len(pub_out) + 1
             /\ sent.cmd = METADATA
             /\ \A k \in keys : ~EndsWith(k, "StatsOutput")
             /\ \A k \in DOMAIN item.metadata :
                   ~EndsWith(k, "StatsOutput")
                       => k \in keys /\ sent.payload.json[k] = item.metadata[k]
             /\ keys \subseteq DOMAIN item.metadata
             /\ item' = item]_vars

\* The metadata message of a frame is out, without the two statistics entries
\* that the frame record still holds.
MetadataPayloadStrippedWitness ==
    /\ pc = "publish_image"
    /\ {"PispStatsOutput", "StatsOutput"} \subseteq DOMAIN item.metadata
    /\ LET sent == pub_out[Len(pub_out)]
       IN /\ sent.cmd = METADATA
          /\ sent.idx = Decimal(item.idx)
          /\ DOMAIN sent.payload.json =
                DOMAIN item.metadata \ {"PispStatsOutput", "StatsOutput"}

\* The size of the buffer as captured, and the active image of the frame in hand.
CapturedW == camera.config[ImageKey(item)].size[1]
CapturedH == camera.config[ImageKey(item)].size[2]
ActiveImage == item[ImageKey(item)].image
HasImage == item # NoItem /\ Has(item, ImageKey(item))

\* C8: at most one of fit_cropped and fit_scaled replaces the active image of
\* a frame, whatever flags the two were constructed with and whatever FitMode
\* controls have arrived.
AtMostOneGeometryStageRewrites == Cardinality(rewrote) <= 1

\* Both stages are enabled as constructed, no FitMode control has been sent,
\* the target is smaller than the image, and the image has passed both
\* stages: fit_cropped alone has replaced it.
AtMostOneGeometryStageRewritesWitness ==
    /\ pc = After("fit_scaled")
    /\ nsent = 0
    /\ crop.enabled /\ scale.enabled
    /\ crop.w < CapturedW
    /\ rewrote = {"fit_cropped"}

\* C9: when fit_cropped is enabled and the latched target is smaller than the
\* image in a dimension, the image it yields has min(image, target) pixels in
\* each dimension and starts (dimension - min(image, target)) / 2, truncated,
\* into the captured image; otherwise it yields the image unchanged.
CropIsCentred ==
    pc = After("fit_cropped") =>
       LET w == Min(CapturedW, crop.w)
           h == Min(CapturedH, crop.h)
       IN IF crop.enabled /\ (crop.w < CapturedW \/ crop.h < CapturedH)
          THEN /\ "fit_cropped" \in rewrote
               /\ ActiveImage.w = w
               /\ ActiveImage.h = h
               /\ ActiveImage.x0 = (CapturedW - w) \div 2
               /\ ActiveImage.y0 = (CapturedH - h) \div 2
               /\ ActiveImage.fx_n = ActiveImage.fx_d
          ELSE /\ "fit_cropped" \notin rewrote
               /\ ActiveImage = Image(<<CapturedW, CapturedH>>)

\* 1920x1080 cropped to 800x600 at (560, 240).
CropIsCentredWitness ==
    /\ pc = After("fit_cropped")
    /\ <<CapturedW, CapturedH>> = <<1920, 1080>>
    /\ <<crop.w, crop.h>> = <<800, 600>>
    /\ <<ActiveImage.w, ActiveImage.h>> = <<800, 600>>
    /\ <<ActiveImage.x0, ActiveImage.y0>> = <<560, 240>>

\* Whether the width is the binding constraint of the latched scale target.
WidthBinds ==
    /\ scale.w # maxsize
    /\ scale.h = maxsize \/ scale.w * CapturedH <= scale.h * CapturedW

\* C10: when fit_scaled is enabled and receives the captured image with a
\* latched target smaller than it in a dimension, it replaces the image by
\* one resized by min(target_w/image_w, target_h/image_h) on both axes: each
\* dimension is within half a pixel of the scaled one and none exceeds the
\* target.
ScaleIsUniform ==
    pc = After("fit_scaled") /\ "fit_cropped" \notin rewrote =>
       IF scale.enabled /\ (scale.w < CapturedW \/ scale.h < CapturedH)
       THEN /\ "fit_scaled" \in rewrote
            /\ IF WidthBinds
               THEN ActiveImage.fx_n * CapturedW = ActiveImage.fx_d * scale.w
               ELSE ActiveImage.fx_n * CapturedH = ActiveImage.fx_d * scale.h
            /\ ActiveImage.fx_n < ActiveImage.fx_d
            /\ ActiveImage.w <= scale.w
            /\ ActiveImage.h <= scale.h
            /\ 2 * ActiveImage.w * ActiveImage.fx_d <=
                  2 * CapturedW * ActiveImage.fx_n + ActiveImage.fx_d
            /\ 2 * ActiveImage.w * ActiveImage.fx_d >=
                  2 * CapturedW * ActiveImage.fx_n - ActiveImage.fx_d
            /\ 2 * ActiveImage.h * ActiveImage.fx_d <=
                  2 * CapturedH * ActiveImage.fx_n + ActiveImage.fx_d
            /\ 2 * ActiveImage.h * ActiveImage.fx_d >=
                  2 * CapturedH * ActiveImage.fx_n - ActiveImage.fx_d
       ELSE /\ "fit_scaled" \notin rewrote
            /\ ActiveImage = Image(<<CapturedW, CapturedH>>)

\* 1920x1080 scaled to fit 800x600: by 800/1920, to 800x450.
ScaleIsUniformWitness ==
    /\ pc = After("fit_scaled")
    /\ <<CapturedW, CapturedH>> = <<1920, 1080>>
    /\ <<scale.w, scale.h>> = <<800, 600>>
    /\ rewrote = {"fit_scaled"}
    /\ <<ActiveImage.w, ActiveImage.h>> = <<800, 450>>
    /\ ActiveImage.fx_n * 1920 = ActiveImage.fx_d * 800

\* The probe reports an autofocus state or mode entry.
ProbeHasAf == Has(camera.probe, "AfState") \/ Has(camera.probe, "AfMode")

\* C11: on a device whose probe reports an autofocus entry, a frame whose
\* batch holds LensPosition and no AfEnable reports AfEnable false and leaves
\* the flag false; a frame that finds the flag false and whose batch holds no
\* AfEnable reports false and leaves it false; no other step touches the
\* flag.  So the report stays false from the LensPosition frame until a batch
\* with AfEnable arrives.
LensPositionDisablesAf ==
    [][/\ StepOf("focus") /\ ProbeHasAf /\ ~Has(item.controls, "AfEnable")
            /\ (Has(item.controls, "LensPosition") \/ af_enable = PyBool(FALSE))
            => /\ Has(item'.metadata, "AfEnable")
               /\ item'.metadata["AfEnable"] = PyBool(FALSE)
               /\ af_enable' = PyBool(FALSE)
       /\ pc \notin {"focus", "focus_start"} => af_enable' = af_enable]_vars

\* C12: focus writes AfEnable into the metadata of a frame exactly when the
\* probe reports an AfState or AfMode entry, whatever its value.
AfEnableWrittenIffProbeHasAf ==
    [][StepOf("focus") => (Has(item'.metadata, "AfEnable") <=> ProbeHasAf)]_vars

\* The number of messages on the publish channel once the thread is at `pc`
\* with the frame `item` in hand.
PublishedAt ==
    CASE pc = "publish_image" -> 2 * item.idx + 1
      [] pc \in {"publish_updates", "raised"} -> 2 * item.idx + 2
      [] item # NoItem -> 2 * item.idx
      [] OTHER -> 2 * count

\* C13: the publish channel carries, frame after frame, the metadata message
\* and then the image message of the frame, both with the ordinal in decimal
\* text, two messages per frame; a state update is sent only by the last step
\* of the publisher, when both messages of the frame in hand are out, and at
\* most one per frame.
TwoMessagesThenUpdate ==
    /\ [](/\ \A i \in 1..Len(pub_out) :
                /\ pub_out[i].cmd = IF i % 2 = 1 THEN METADATA ELSE JPEGIMG
                /\ pub_out[i].idx = Decimal((i - 1) \div 2)
          /\ Len(pub_out) = PublishedAt)
    /\ [][svr_out' # svr_out =>
            /\ pc = "publish_updates"
            /\ pc' = After("publisher")
            /\ Len(svr_out') = Len(svr_out) + 1
            /\ pub_out' = pub_out
            /\ Len(pub_out) = 2 * item.idx + 2
            /\ pub_out[Len(pub_out) - 1] =
                  [cmd |-> METADATA, idx |-> Decimal(item.idx),
                   payload |-> JsonDumps(pub_md)]
            /\ pub_out[Len(pub_out)].cmd = JPEGIMG
            /\ pub_out[Len(pub_out)].idx = Decimal(item.idx)]_vars

\* The second frame is published: four messages are out, the last two the
\* metadata and the image of ordinal "1", and a state update was sent for each
\* of the two frames.
TwoMessagesThenUpdateWitness ==
    /\ pc = After("publisher")
    /\ count = 2
    /\ Len(pub_out) = 4
    /\ pub_out[3].cmd = METADATA /\ pub_out[3].idx = "1"
    /\ pub_out[4].cmd = JPEGIMG /\ pub_out[4].idx = "1"
    /\ Len(svr_out) = 2

\* The stage whose code the thread is in.
StageAt ==
    CASE pc \in {"capture_wait", "capture_submit"} -> "capture"
      [] pc \in {"publish_metadata", "publish_image", "publish_updates", "raised"}
            -> "publisher"
      [] OTHER -> pc

\* The frame in hand has been yielded by `stage`.
Passed(stage) == item # NoItem /\ Position(StageAt) > Position(stage)

\* C14: there is a frame record in hand exactly from the drain that creates
\* it to the end of the publisher, it is the record of the last ordinal
\* assigned, and it carries the marks of exactly the stages upstream of the
\* thread's position; the control channel is drained for the next frame only
\* when no record is in hand and every frame created so far has its two
\* publish messages out and has been through the publisher's comparison.
OneFrameInProgress ==
    /\ [](/\ item = NoItem <=> pc \in {"focus_start", "capture_start", "control"}
          /\ item # NoItem =>
                /\ item.idx = count - 1
                /\ Has(item, "metadata") <=> Passed("capture")
                /\ Has(item, "main") <=> Passed("capture")
                /\ Passed("capture") =>
                      /\ Has(item.metadata, "AwbEnable") <=> Passed("whitebalance")
                      /\ Has(item.metadata, "AeEnable") <=> Passed("exposure")
                /\ Has(item, "jpeg") <=> Passed("jpeg_encoder")
                /\ Len(pub_out) \in {2 * item.idx, 2 * item.idx + 1, 2 * item.idx + 2}
                /\ Len(pub_out) > 2 * item.idx => StageAt = "publisher")
    /\ [][count' # count =>
            /\ pc = "control"
            /\ item = NoItem
            /\ Len(pub_out) = 2 * count
            /\ Len(last) = Min(count, 2)
            /\ chan' = <<>>
            /\ item' = [idx |-> count, controls |-> Drain(chan, EmptyDict)]]_vars

\* The channel is drained for the third frame: the two frames before it are
\* published, each with a state update, and a control message is taken into
\* the new record.
OneFrameInProgressWitness ==
    /\ pc = After("control")
    /\ count = 3
    /\ item.idx = 2
    /\ item.controls # EmptyDict
    /\ Len(pub_out) = 4
    /\ Len(last) = 2
    /\ Len(svr_out) >= 1

\* C15 as stated: when capture is at the wait for the previous request, the
\* next request has already been submitted.
NextSubmittedBeforeWait == pc = "capture_wait" => Len(jobs) >= 2

\* C15, amended: capture waits with exactly one request outstanding, the one
\* it waits for; when the wait has returned none is outstanding and the next
\* is submitted before the record is yielded, so one request is in flight all
\* the while the frame is handled downstream of capture.
NextSubmittedAfterWait ==
    /\ pc = "capture_wait" => Len(jobs) = 1
    /\ pc = "capture_submit" => jobs = <<>>
    /\ Passed("capture") => Len(jobs) = 1

\* The second frame is at the encoder; two requests have been waited for and
\* the third is with the camera, not yet complete.
NextSubmittedAfterWaitWitness ==
    /\ pc = "jpeg_encoder"
    /\ item.idx = 1
    /\ completions = 2
    /\ jobs = <<PendingJob>>

\* C16: once capture has yielded the frame, its ImageSize is the configured
\* size of the buffer the geometry stages and the encoder select.
ImageSizeOfActiveBuffer ==
    Passed("capture") =>
        item.metadata["ImageSize"] = camera.config[ImageKey(item)].size

\* The last frame `stage` has handled.
HandledBy(stage) ==
    IF item = NoItem \/ Passed(stage) THEN count - 1 ELSE count - 2

\* The value of key k in the last control message that carries k among those
\* drained into the batches of the frames 0..n; unbounded when there is none.
Requested(k, n) ==
    LET S == {i \in 1..Len(landed) : /\ Has(landed[i].ctrls, k)
                                     /\ landed[i].batches # <<>>
                                     /\ landed[i].batches[1] <= n}
    IN IF S = {} THEN maxsize
       ELSE landed[CHOOSE i \in S : \A j \in S : j <= i].ctrls[k]

\* C17: the target each geometry stage holds is, in each dimension, the last
\* Width or Height that has arrived in the batch of any frame the stage has
\* handled, whether the stage was enabled on that frame or not, and unbounded
\* when none has arrived; an enabled stage fits the image into that target,
\* and while the target is unbounded the image stays as captured.
TargetIsLastRequested ==
    /\ crop.w = Requested("Width", HandledBy("fit_cropped"))
    /\ crop.h = Requested("Height", HandledBy("fit_cropped"))
    /\ scale.w = Requested("Width", HandledBy("fit_scaled"))
    /\ scale.h = Requested("Height", HandledBy("fit_scaled"))
    /\ pc = After("fit_cropped") /\ crop.enabled =>
          /\ ActiveImage.w = Min(CapturedW, Requested("Width", item.idx))
          /\ ActiveImage.h = Min(CapturedH, Requested("Height", item.idx))
    /\ pc = After("fit_scaled") /\ scale.enabled =>
          /\ ActiveImage.w <= Requested("Width", item.idx)
          /\ ActiveImage.h <= Requested("Height", item.idx)
    /\ /\ Passed("fit_scaled")
       /\ Requested("Width", item.idx) = maxsize
       /\ Requested("Height", item.idx) = maxsize
       => ActiveImage = Image(<<CapturedW, CapturedH>>) /\ rewrote = {}

\* Width 2 arrived with the first frame, when fit_cropped was disabled; the
\* second frame brought nothing; the third brings FitMode "cropped" and is
\* cropped to width 2.
TargetIsLastRequestedWitness ==
    /\ pc = After("fit_cropped")
    /\ item.idx = 2
    /\ Len(landed) = 2
    /\ landed[1].ctrls = [Width |-> 2]
    /\ landed[1].batches = <<0>>
    /\ landed[2].ctrls = [FitMode |-> "cropped"]
    /\ landed[2].batches = <<2>>
    /\ crop = [enabled |-> TRUE, w |-> 2, h |-> maxsize]
    /\ scale.enabled = FALSE
    /\ scale.w = 2
    /\ ActiveImage.w = 2 /\ ActiveImage.h = 3

\* C18: every frame the camera delivers carries AnalogueGain and ExposureTime,
\* with or without LensPosition; the publisher raises on none of them.
PublisherNeverRaises ==
    (\A i \in 1..Len(jobs) : jobs[i].state = "done" =>
         {"AnalogueGain", "ExposureTime"} \subseteq DOMAIN jobs[i].metadata)
    => pc # "raised"

\* C19: the AfEnable that focus has written into the metadata of the frame in
\* hand is a bool (the client sends AfEnable as a bool only).
AfEnableIsBool ==
    Passed("focus") /\ Has(item.metadata, "AfEnable")
        => item.metadata["AfEnable"] \in {PyBool(TRUE), PyBool(FALSE)}

\* The keys a stage passes to the camera with the given value in the step.
Applied == {k \in DOMAIN camera'.controls :
               ~Has(camera.controls, k) \/ camera.controls[k] # camera'.controls[k]}

\* C20: once the chain runs, the controls of the camera change only in the
\* step of focus, whitebalance or exposure on the frame in hand, frame N; the
\* results of the requests 0..N have then been retrieved and no more, and
\* exactly one request, the one for frame N+1, is with the camera; what
\* whitebalance and exposure set are keys and values of the batch of frame N,
\* and focus sets something only when the batch holds one of its keys.  Each
\* of the three stages runs on frame N in that window, and the keys of
\* whitebalance and exposure in the batch are with the camera when the stage
\* has run.
ControlsAppliedBetweenSubmitAndWait ==
    [][/\ (\E stage \in {"focus", "whitebalance", "exposure"} : StepOf(stage))
          => /\ completions = item.idx + 1
             /\ Len(jobs) = 1
             /\ \A k \in DOMAIN item.controls \cap
                          (IF pc = "whitebalance" THEN WbKeys
                           ELSE IF pc = "exposure" THEN ExposureKeys ELSE {}) :
                   /\ Has(camera'.controls, k)
                   /\ camera'.controls[k] = item.controls[k]
       /\ camera' # camera /\ pc # "focus_start" =>
          /\ \E stage \in {"focus", "whitebalance", "exposure"} : StepOf(stage)
          /\ camera'.controls # camera.controls
          /\ completions = item.idx + 1
          /\ completions' = completions
          /\ Len(jobs) = 1
          /\ jobs' = jobs
          /\ pc \in {"whitebalance", "exposure"} =>
                \A k \in Applied : /\ Has(item.controls, k)
                                   /\ camera'.controls[k] = item.controls[k]
          /\ pc = "focus" =>
                DOMAIN item.controls \cap {"AfEnable", "AfTrigger", "LensPosition"} # {}
      ]_vars

\* The second frame has passed exposure, which set the exposure time of its
\* batch; two results have been retrieved and the request for the third frame
\* is with the camera, not yet complete.
ControlsAppliedBetweenSubmitAndWaitWitness ==
    /\ pc = After("exposure")
    /\ item.idx = 1
    /\ Has(item.controls, "ExposureTime")
    /\ Has(camera.controls, "ExposureTime")
    /\ camera.controls["ExposureTime"] = item.controls["ExposureTime"]
    /\ BatchOf(1) # {}
    /\ BatchOf(0) = {}
    /\ completions = 2
    /\ jobs = <<PendingJob>>

====
